---------------------------- MODULE Spec2Model ----------------------------
(***************************************************************************)
(* A model of import_msh.py: the gmsh MSH importer (load, skipUnknownCmd   *)
(* and the caller ImportMSH.execute).                                      *)
(*                                                                         *)
(* A file is a sequence of lines.  A line is the sequence of its           *)
(* whitespace-separated tokens (strings) together with the flag nl: the    *)
(* text readline() returns ends in "\n" for every line of the file and is  *)
(* the empty string at end of file.  Tokens of one line are separated by   *)
(* single blanks, and a blank line is "\n" alone.                          *)
(***************************************************************************)
EXTENDS Integers, Sequences, FiniteSets, TLC

(***************************************************************************)
(* Bounds of the model.                                                    *)
(***************************************************************************)
\* the most elements of a file
MaxElems == 3
\* the most unknown sections in a row
MaxUnknown == 2
\* the most lines (node records and blank lines) of a node section whose
\* lines vary
MaxNodeLines == 3

(***************************************************************************)
(* Strings.                                                                *)
(***************************************************************************)
Digits == "0123456789"

Char(s, i) == SubSeq(s, i, i)

IsDigit(c) == \E d \in 1..10 : Char(Digits, d) = c

DigitVal(c) == (CHOOSE d \in 1..10 : Char(Digits, d) = c) - 1

AllDigits(s) == \A i \in 1..Len(s) : IsDigit(Char(s, i))

RECURSIVE NatVal(_)
NatVal(s) ==
  IF Len(s) = 0 THEN 0
  ELSE 10 * NatVal(SubSeq(s, 1, Len(s) - 1)) + DigitVal(Char(s, Len(s)))

HasSign(s) == Len(s) > 0 /\ Char(s, 1) \in {"-", "+"}

Unsigned(s) == IF HasSign(s) THEN SubSeq(s, 2, Len(s)) ELSE s

\* int(tok) succeeds on an optional sign followed by decimal digits
IsInt(tok) == Len(Unsigned(tok)) > 0 /\ AllDigits(Unsigned(tok))

IntVal(tok) ==
  IF Len(tok) > 0 /\ Char(tok, 1) = "-" THEN 0 - NatVal(Unsigned(tok))
  ELSE NatVal(Unsigned(tok))

DotAt(s) == {i \in 1..Len(s) : Char(s, i) = "."}

\* float(tok) on the literals  [sign] digits [. digits]  (one part may be
\* empty); exponent forms, inf and nan do not occur in the modelled files
IsFloat(tok) ==
  LET u == Unsigned(tok)
  IN  \/ IsInt(tok)
      \/ /\ Cardinality(DotAt(u)) = 1
         /\ Len(u) > 1
         /\ LET d == CHOOSE i \in DotAt(u) : TRUE
            IN  /\ AllDigits(SubSeq(u, 1, d - 1))
                /\ AllDigits(SubSeq(u, d + 1, Len(u)))

RECURSIVE StripZeros(_)
StripZeros(s) ==
  IF Len(s) > 0 /\ Char(s, Len(s)) = "0"
  THEN StripZeros(SubSeq(s, 1, Len(s) - 1)) ELSE s

\* the value of a float literal: sign, whole part, fractional digits
FloatVal(tok) ==
  LET u == Unsigned(tok)
      d == IF DotAt(u) = {} THEN Len(u) + 1 ELSE CHOOSE i \in DotAt(u) : TRUE
      w == NatVal(SubSeq(u, 1, d - 1))
      f == StripZeros(SubSeq(u, d + 1, Len(u)))
  IN  [neg |-> Len(tok) > 0 /\ Char(tok, 1) = "-" /\ (w > 0 \/ f # ""),
       whole |-> w, frac |-> f]

\* version_number < 4.0
LessThan4(v) == v.neg \/ v.whole < 4

\* sub in s
RECURSIVE ContainsFrom(_, _, _)
ContainsFrom(s, sub, i) ==
  IF i + Len(sub) - 1 > Len(s) THEN FALSE
  ELSE IF SubSeq(s, i, i + Len(sub) - 1) = sub THEN TRUE
  ELSE ContainsFrom(s, sub, i + 1)

Contains(s, sub) == ContainsFrom(s, sub, 1)

\* s.strip("$")
RECURSIVE StripDollar(_)
StripDollar(s) ==
  IF Len(s) > 0 /\ Char(s, 1) = "$" THEN StripDollar(SubSeq(s, 2, Len(s)))
  ELSE IF Len(s) > 0 /\ Char(s, Len(s)) = "$"
  THEN StripDollar(SubSeq(s, 1, Len(s) - 1))
  ELSE s

RECURSIVE ToStr(_)
ToStr(n) ==
  IF n < 0 THEN "-" \o ToStr(0 - n)
  ELSE IF n < 10 THEN Char(Digits, n + 1)
  ELSE ToStr(n \div 10) \o Char(Digits, (n % 10) + 1)

(***************************************************************************)
(* Lines and the file object.                                              *)
(***************************************************************************)
L(toks) == [toks |-> toks, nl |-> TRUE]

Blank == L(<<>>)

EOFLine == [toks |-> <<>>, nl |-> FALSE]

\* f.readline() at position pos (1-based index of the next unread line)
ReadLine(file, pos) == IF pos <= Len(file) THEN file[pos] ELSE EOFLine

Advance(file, pos) == IF pos <= Len(file) THEN pos + 1 ELSE pos

RECURSIVE Join(_)
Join(toks) ==
  IF Len(toks) = 0 THEN ""
  ELSE IF Len(toks) = 1 THEN toks[1]
  ELSE toks[1] \o " " \o Join(Tail(toks))

\* line.strip("\r\n") and line.rstrip(): the text without its line end
Text(line) == Join(line.toks)

\* line.isspace(): false for the empty string readline() gives at end of file
IsSpace(line) == line.nl /\ line.toks = <<>>

(***************************************************************************)
(* Python values and errors.  A raised exception is the name of its class; *)
(* "" is no exception.  s[k] raises IndexError past the end of the list,   *)
(* int() and float() raise ValueError on a token they cannot parse.        *)
(***************************************************************************)
NoErr == ""

RECURSIVE FirstErr(_)
FirstErr(errs) ==
  IF Len(errs) = 0 THEN NoErr
  ELSE IF errs[1] # NoErr THEN errs[1] ELSE FirstErr(Tail(errs))

\* F(v), with v evaluated once
Bind(v, F(_)) == CHOOSE y \in {F(x) : x \in {v}} : TRUE

UnsetFloat == [neg |-> FALSE, whole |-> 0, frac |-> ""]

\* a token with what int() and float() make of it
Tok(s) ==
  [s |-> s,
   isint |-> IsInt(s), int |-> IF IsInt(s) THEN IntVal(s) ELSE 0,
   isfloat |-> IsFloat(s),
   float |-> IF IsFloat(s) THEN FloatVal(s) ELSE UnsetFloat]

\* a line as readline() returns it: its text, and s = line.split()
Lex(line) ==
  [nl |-> line.nl, text |-> Text(line), n |-> Len(line.toks),
   s |-> [k \in 1..Len(line.toks) |-> Tok(line.toks[k])]]

\* the exception of int(s[k]) and of float(s[k]), k counted from 0
ErrInt(t, k) ==
  IF k >= t.n THEN "IndexError"
  ELSE IF ~t.s[k + 1].isint THEN "ValueError" ELSE NoErr

ErrFloat(t, k) ==
  IF k >= t.n THEN "IndexError"
  ELSE IF ~t.s[k + 1].isfloat THEN "ValueError" ELSE NoErr

\* the exception of int(text) for the whole text of the line: one token
ErrIntOfText(t) == IF t.n = 1 /\ t.s[1].isint THEN NoErr ELSE "ValueError"

\* a dict, and d[k] = v
EmptyDict == [k \in {} |-> 0]

Put(d, k, v) == [x \in (DOMAIN d) \cup {k} |-> IF x = k THEN v ELSE d[x]]

\* the position after k more readline() calls
After(file, pos, k) ==
  IF pos + k <= Len(file) + 1 THEN pos + k ELSE Len(file) + 1

ELEMENT_TYPES ==
  (1 :> 2) @@ (2 :> 3) @@ (3 :> 4) @@ (4 :> 4) @@ (5 :> 8) @@ (6 :> 6)
  @@ (7 :> 5) @@ (15 :> 0)

(***************************************************************************)
(* skipUnknownCmd(f, c): the position of the file after the call.          *)
(***************************************************************************)
\* lines 172-173: the loop, tmp being the text read last
RECURSIVE SkipLoop(_, _, _, _)
SkipLoop(file, p, c, tmp) ==
  IF ~Contains(tmp, "$End" \o c) /\ Len(tmp) > 0
  THEN SkipLoop(file, Advance(file, p), c, Text(ReadLine(file, p)))
  ELSE p

skipUnknownCmd(file, p, c) ==
  Bind(StripDollar(c), LAMBDA name : SkipLoop(file, p, name, name))

(***************************************************************************)
(* load, lines 179-186: the first line, the format line, $EndMeshFormat    *)
(* and the line after it.                                                  *)
(***************************************************************************)
MeshFormat(file) ==
  IF Text(ReadLine(file, 1)) # "$MeshFormat"
  THEN [ret |-> "None", err |-> NoErr, pos |-> After(file, 1, 1),
        version_number |-> UnsetFloat, cmd |-> ""]
  ELSE
    Bind(Lex(ReadLine(file, 2)), LAMBDA t :
      Bind(FirstErr(<<ErrFloat(t, 0), ErrInt(t, 1), ErrInt(t, 2)>>), LAMBDA e :
        IF e # NoErr
        THEN [ret |-> "", err |-> e, pos |-> After(file, 1, 2),
              version_number |-> UnsetFloat, cmd |-> ""]
        ELSE [ret |-> "", err |-> NoErr, pos |-> After(file, 1, 4),
              version_number |-> t.s[1].float,
              cmd |-> Text(ReadLine(file, 4))]))

(***************************************************************************)
(* load, lines 187-200: the optional $PhysicalNames section.               *)
(***************************************************************************)
\* one token of shlex.split: the quotes around a quoted word are removed
\* (the modelled names hold no blanks, quotes or backslashes)
Unquote(tok) ==
  IF Len(tok) >= 2 /\ Char(tok, 1) = "\"" /\ Char(tok, Len(tok)) = "\""
  THEN SubSeq(tok, 2, Len(tok) - 1) ELSE tok

NoNames == [d \in 1..3 |-> EmptyDict]

\* dim, num, name = int(s[0]), int(s[1]), s[2]; physical_names[dim]
NameErr(t) ==
  FirstErr(<<ErrInt(t, 0), ErrInt(t, 1),
             IF t.n < 3 THEN "IndexError" ELSE NoErr,
             IF t.n > 0 /\ t.s[1].int \notin 1..3 THEN "KeyError" ELSE NoErr>>)

\* lines 190-197 with n iterations left, then lines 199-200
RECURSIVE NamesLoop(_, _, _, _)
NamesLoop(file, p, n, names) ==
  IF n <= 0
  THEN [err |-> NoErr, pos |-> After(file, p, 2), physical_names |-> names,
        cmd |-> Text(ReadLine(file, p + 1))]
  ELSE
    Bind(Lex(ReadLine(file, p)), LAMBDA t :
      IF t.nl /\ t.n = 0 THEN NamesLoop(file, Advance(file, p), n - 1, names)
      ELSE IF NameErr(t) # NoErr
      THEN [err |-> NameErr(t), pos |-> Advance(file, p),
            physical_names |-> names, cmd |-> "$PhysicalNames"]
      ELSE NamesLoop(file, Advance(file, p), n - 1,
             [names EXCEPT ![t.s[1].int] =
                Put(@, t.s[2].int, Unquote(t.s[3].s))]))

PhysicalNames(file, p, cmd) ==
  IF cmd # "$PhysicalNames"
  THEN [err |-> NoErr, pos |-> p, physical_names |-> NoNames, cmd |-> cmd]
  ELSE
    \* number_of_names = int(f.readline().rstrip())
    Bind(Lex(ReadLine(file, p)), LAMBDA t :
      IF ErrIntOfText(t) # NoErr
      THEN [err |-> ErrIntOfText(t), pos |-> Advance(file, p),
            physical_names |-> NoNames, cmd |-> cmd]
      ELSE NamesLoop(file, Advance(file, p), t.s[1].int, NoNames))

(***************************************************************************)
(* load, lines 203-205: one section that is not a node section is skipped. *)
(***************************************************************************)
SkipToNodes(file, p, cmd) ==
  IF ~Contains(cmd, "Nodes")
  THEN Bind(skipUnknownCmd(file, p, cmd), LAMBDA q :
         [pos |-> Advance(file, q), cmd |-> Text(ReadLine(file, q))])
  ELSE [pos |-> p, cmd |-> cmd]

(***************************************************************************)
(* load, lines 207-235: the node section.                                  *)
(***************************************************************************)
\* num, x, y, z = int(s[0]), float(s[1]), float(s[2]), float(s[3])
NodeErr(t) ==
  FirstErr(<<ErrInt(t, 0), ErrFloat(t, 1), ErrFloat(t, 2), ErrFloat(t, 3)>>)

\* nodes[num] = (x, y, z)
PutNode(nodes, t) ==
  Put(nodes, t.s[1].int, <<t.s[2].float, t.s[3].float, t.s[4].float>>)

\* lines 211-217 with n iterations left, then line 219
RECURSIVE LegacyNodesLoop(_, _, _, _)
LegacyNodesLoop(file, p, n, nodes) ==
  IF n <= 0 THEN [err |-> NoErr, pos |-> Advance(file, p), nodes |-> nodes]
  ELSE
    Bind(Lex(ReadLine(file, p)), LAMBDA t :
      IF t.nl /\ t.n = 0
      THEN LegacyNodesLoop(file, Advance(file, p), n - 1, nodes)
      ELSE IF NodeErr(t) # NoErr
      THEN [err |-> NodeErr(t), pos |-> Advance(file, p), nodes |-> nodes]
      ELSE LegacyNodesLoop(file, Advance(file, p), n - 1, PutNode(nodes, t)))

\* lines 227-231: n nodes of one entity block are left
RECURSIVE EntityNodesLoop(_, _, _, _)
EntityNodesLoop(file, p, n, nodes) ==
  IF n <= 0 THEN [err |-> NoErr, pos |-> p, nodes |-> nodes]
  ELSE
    Bind(Lex(ReadLine(file, p)), LAMBDA t :
      IF NodeErr(t) # NoErr
      THEN [err |-> NodeErr(t), pos |-> Advance(file, p), nodes |-> nodes]
      ELSE EntityNodesLoop(file, Advance(file, p), n - 1, PutNode(nodes, t)))

\* the exception of int(line.split(" ")[-1]): the last token of the line
ErrLastInt(t) == IF t.n = 0 THEN "ValueError" ELSE ErrInt(t, t.n - 1)

\* lines 224-231 with b entity blocks left, then line 233
RECURSIVE NodeBlocksLoop(_, _, _, _)
NodeBlocksLoop(file, p, b, nodes) ==
  IF b <= 0 THEN [err |-> NoErr, pos |-> Advance(file, p), nodes |-> nodes]
  ELSE
    Bind(Lex(ReadLine(file, p)), LAMBDA t :
      IF ErrLastInt(t) # NoErr
      THEN [err |-> ErrLastInt(t), pos |-> Advance(file, p), nodes |-> nodes]
      ELSE
        \* num_nodes_in_entity = t.s[t.n].int
        Bind(EntityNodesLoop(file, Advance(file, p), t.s[t.n].int, nodes),
             LAMBDA r :
               IF r.err # NoErr THEN r
               ELSE NodeBlocksLoop(file, r.pos, b - 1, r.nodes)))

\* the result of a loop with the count read from the header of the section
WithNodeCount(r, n) ==
  [err |-> r.err, pos |-> r.pos, number_of_nodes |-> n, nodes |-> r.nodes]

Nodes(file, p, cmd, version_number) ==
  IF cmd \in {"$ParametricNodes", "$Nodes"} /\ LessThan4(version_number)
  THEN
    \* number_of_nodes = int(f.readline().rstrip())
    Bind(Lex(ReadLine(file, p)), LAMBDA t :
      IF ErrIntOfText(t) # NoErr
      THEN [err |-> ErrIntOfText(t), pos |-> Advance(file, p),
            number_of_nodes |-> 0, nodes |-> EmptyDict]
      ELSE WithNodeCount(
             LegacyNodesLoop(file, Advance(file, p), t.s[1].int, EmptyDict),
             t.s[1].int))
  ELSE IF cmd = "$Nodes"
  THEN
    \* tmp = f.readline().rstrip().split(" "), [""] for a blank line;
    \* number_of_nodes = int(tmp[1]), number_of_entity_block = int(tmp[0])
    Bind(Lex(ReadLine(file, p)), LAMBDA tmp :
      IF ErrInt(tmp, 1) # NoErr
      THEN [err |-> ErrInt(tmp, 1), pos |-> Advance(file, p),
            number_of_nodes |-> 0, nodes |-> EmptyDict]
      ELSE IF ErrInt(tmp, 0) # NoErr
      THEN [err |-> ErrInt(tmp, 0), pos |-> Advance(file, p),
            number_of_nodes |-> tmp.s[2].int, nodes |-> EmptyDict]
      ELSE WithNodeCount(
             NodeBlocksLoop(file, Advance(file, p), tmp.s[1].int, EmptyDict),
             tmp.s[2].int))
  ELSE [err |-> NoErr, pos |-> skipUnknownCmd(file, p, cmd),
        number_of_nodes |-> 0, nodes |-> EmptyDict]

(***************************************************************************)
(* load, lines 239-292: the line taken for $Elements and the element       *)
(* section.                                                                *)
(***************************************************************************)
\* lines 256-258 and 263-265: the exception of int(s[j]) for
\* j = from .. from + n - 1
RECURSIVE IntsErr(_, _, _)
IntsErr(t, from, n) ==
  IF n <= 0 THEN NoErr
  ELSE IF ErrInt(t, from) # NoErr THEN ErrInt(t, from)
  ELSE IntsErr(t, from + 1, n - 1)

Ints(t, from, n) == [k \in 1..(IF n > 0 THEN n ELSE 0) |-> t.s[from + k].int]

\* the node count of a type; an unknown type is reported (line 267) and
\* leaves elem_nodes empty
NodeCount(elem_type) ==
  IF elem_type \in DOMAIN ELEMENT_TYPES THEN ELEMENT_TYPES[elem_type] ELSE 0

\* range(num_tags)
TagCount(t) == IF t.s[3].int > 0 THEN t.s[3].int ELSE 0

\* lines 249-265: the exception of one element line of the legacy grammar;
\* tags[0] and tags[1] raise IndexError when there are fewer than two tags
LegacyElementErr(t) ==
  IF FirstErr(<<ErrInt(t, 0), ErrInt(t, 1), ErrInt(t, 2)>>) # NoErr
  THEN FirstErr(<<ErrInt(t, 0), ErrInt(t, 1), ErrInt(t, 2)>>)
  ELSE IF IntsErr(t, 3, TagCount(t)) # NoErr THEN IntsErr(t, 3, TagCount(t))
  ELSE IF TagCount(t) < 2 THEN "IndexError"
  ELSE IntsErr(t, 3 + TagCount(t), NodeCount(t.s[2].int))

\* line 268
LegacyElement(t) ==
  [type |-> t.s[2].int, physical_entity |-> t.s[4].int,
   geo_entity |-> t.s[5].int,
   nodes |-> Ints(t, 3 + TagCount(t), NodeCount(t.s[2].int))]

\* lines 245-268: n iterations are left
RECURSIVE LegacyElementsLoop(_, _, _, _)
LegacyElementsLoop(file, p, n, elements) ==
  IF n <= 0 THEN [err |-> NoErr, pos |-> p, elements |-> elements]
  ELSE
    Bind(Lex(ReadLine(file, p)), LAMBDA t :
      IF t.nl /\ t.n = 0
      THEN LegacyElementsLoop(file, Advance(file, p), n - 1, elements)
      ELSE IF LegacyElementErr(t) # NoErr
      THEN [err |-> LegacyElementErr(t), pos |-> Advance(file, p),
            elements |-> elements]
      ELSE LegacyElementsLoop(file, Advance(file, p), n - 1,
                              Put(elements, t.s[1].int, LegacyElement(t))))

\* lines 282-289: the exception of one element line of an entity block
BlockElementErr(t, elem_type) ==
  IF ErrInt(t, 0) # NoErr THEN ErrInt(t, 0)
  ELSE IntsErr(t, 1, NodeCount(elem_type))

\* line 292: no tags, and the record has no "physical_entity" key
BlockElement(t, elem_type) ==
  [type |-> elem_type, nodes |-> Ints(t, 1, NodeCount(elem_type))]

\* lines 278-292: n iterations of one entity block are left
RECURSIVE EntityElementsLoop(_, _, _, _, _)
EntityElementsLoop(file, p, n, elem_type, elements) ==
  IF n <= 0 THEN [err |-> NoErr, pos |-> p, elements |-> elements]
  ELSE
    Bind(Lex(ReadLine(file, p)), LAMBDA t :
      IF t.nl /\ t.n = 0
      THEN EntityElementsLoop(file, Advance(file, p), n - 1, elem_type,
                              elements)
      ELSE IF BlockElementErr(t, elem_type) # NoErr
      THEN [err |-> BlockElementErr(t, elem_type), pos |-> Advance(file, p),
            elements |-> elements]
      ELSE EntityElementsLoop(file, Advance(file, p), n - 1, elem_type,
             Put(elements, t.s[1].int, BlockElement(t, elem_type))))

\* lines 273-292: b entity blocks are left
RECURSIVE ElementBlocksLoop(_, _, _, _)
ElementBlocksLoop(file, p, b, elements) ==
  IF b <= 0 THEN [err |-> NoErr, pos |-> p, elements |-> elements]
  ELSE
    \* elem_type = int(s[2]); number_of_elements_in_entity = int(s[3])
    Bind(Lex(ReadLine(file, p)), LAMBDA t :
      IF FirstErr(<<ErrInt(t, 2), ErrInt(t, 3)>>) # NoErr
      THEN [err |-> FirstErr(<<ErrInt(t, 2), ErrInt(t, 3)>>),
            pos |-> Advance(file, p), elements |-> elements]
      ELSE
        Bind(EntityElementsLoop(file, Advance(file, p), t.s[4].int,
                                t.s[3].int, elements),
             LAMBDA r :
               IF r.err # NoErr THEN r
               ELSE ElementBlocksLoop(file, r.pos, b - 1, r.elements)))

WithElementCount(r, n) ==
  [err |-> r.err, pos |-> r.pos, number_of_elements |-> n,
   elements |-> r.elements]

\* p is the position after the readline() of line 239
ElementsAt(file, p, version_number) ==
  IF LessThan4(version_number)
  THEN
    \* number_of_elements = int(f.readline().strip())
    Bind(Lex(ReadLine(file, p)), LAMBDA t :
      IF ErrIntOfText(t) # NoErr
      THEN [err |-> ErrIntOfText(t), pos |-> Advance(file, p),
            number_of_elements |-> 0, elements |-> EmptyDict]
      ELSE WithElementCount(
             LegacyElementsLoop(file, Advance(file, p), t.s[1].int, EmptyDict),
             t.s[1].int))
  ELSE
    \* tmp = f.readline().rstrip().split(" "), [""] for a blank line;
    \* number_of_entity_block = int(tmp[0]), number_of_elements = int(tmp[1])
    Bind(Lex(ReadLine(file, p)), LAMBDA tmp :
      IF tmp.n = 0 \/ FirstErr(<<ErrInt(tmp, 0), ErrInt(tmp, 1)>>) # NoErr
      THEN [err |-> IF tmp.n = 0 THEN "ValueError"
                    ELSE FirstErr(<<ErrInt(tmp, 0), ErrInt(tmp, 1)>>),
            pos |-> Advance(file, p),
            number_of_elements |-> 0, elements |-> EmptyDict]
      ELSE WithElementCount(
             ElementBlocksLoop(file, Advance(file, p), tmp.s[1].int, EmptyDict),
             tmp.s[2].int))

Elements(file, p, version_number) ==
  ElementsAt(file, Advance(file, p), version_number)

(***************************************************************************)
(* load, lines 296-340: the checks of the counts and the assembly.         *)
(***************************************************************************)
\* lines 301-302
CheckCounts(nodes, number_of_nodes, elements, number_of_elements) ==
  IF Cardinality(DOMAIN nodes) # number_of_nodes THEN "AssertionError"
  ELSE IF Cardinality(DOMAIN elements) # number_of_elements
  THEN "AssertionError"
  ELSE NoErr

\* lines 304-305: verts.append(nodes[i+1]) for i = done .. number_of_nodes-1
RECURSIVE VertsLoop(_, _, _, _)
VertsLoop(nodes, number_of_nodes, done, verts) ==
  IF done >= number_of_nodes THEN [err |-> NoErr, verts |-> verts]
  ELSE IF done + 1 \notin DOMAIN nodes
  THEN [err |-> "KeyError", verts |-> verts]
  ELSE VertsLoop(nodes, number_of_nodes, done + 1,
                 Append(verts, nodes[done + 1]))

\* sorted(t)
RECURSIVE Insert(_, _)
Insert(x, t) ==
  IF Len(t) = 0 THEN <<x>>
  ELSE IF x <= t[1] THEN <<x>> \o t
  ELSE <<t[1]>> \o Insert(x, Tail(t))

RECURSIVE Sorted(_)
Sorted(t) == IF Len(t) = 0 THEN <<>> ELSE Insert(t[1], Sorted(Tail(t)))

\* tuple([e - 1 for e in element["nodes"]])
Indices(elem_nodes) == [k \in 1..Len(elem_nodes) |-> elem_nodes[k] - 1]

\* line 313 without sorted: key = tuple(face)
FaceKeyUnsorted(face) == face

\* line 313: key = tuple(sorted(face))
FaceKey(face) == Sorted(face)

\* faces_dict is an OrderedDict: the sequence of its items [key, face] in the
\* order of insertion
HasKey(faces_dict, key) == \E k \in 1..Len(faces_dict) : faces_dict[k].key = key

\* faces_dict.get(key): the face stored under key, or () when there is none
\* (None and the empty tuple are both false in "if not ...")
Get(faces_dict, key) ==
  IF HasKey(faces_dict, key)
  THEN faces_dict[CHOOSE k \in 1..Len(faces_dict) : faces_dict[k].key = key].face
  ELSE <<>>

\* faces_dict[key] = face
SetItem(faces_dict, key, face) ==
  IF HasKey(faces_dict, key)
  THEN [k \in 1..Len(faces_dict) |->
          IF faces_dict[k].key = key THEN [key |-> key, face |-> face]
          ELSE faces_dict[k]]
  ELSE Append(faces_dict, [key |-> key, face |-> face])

\* lines 316-319: the name appended for a new face
SurfaceName(physical_names, element) ==
  IF Cardinality(DOMAIN physical_names[2]) > 0
  THEN IF "physical_entity" \notin DOMAIN element
       THEN [err |-> "KeyError", name |-> ""]
       ELSE IF element.physical_entity \notin DOMAIN physical_names[2]
       THEN [err |-> "KeyError", name |-> ""]
       ELSE [err |-> NoErr,
             name |-> physical_names[2][element.physical_entity]]
  ELSE [err |-> NoErr, name |-> "no_name"]

\* lines 308-319: one iteration of the assembly pass, for element number n
AssembleElement(elements, n, physical_names, edges, faces_dict, surface_names) ==
  IF n \notin DOMAIN elements
  THEN [err |-> "KeyError", edges |-> edges, faces_dict |-> faces_dict,
        surface_names |-> surface_names]
  ELSE
    LET element == elements[n]
        face == Indices(element.nodes)
        key == FaceKey(face)
        name == SurfaceName(physical_names, element)
    IN  IF element.type = 1
        THEN [err |-> NoErr, edges |-> Append(edges, face),
              faces_dict |-> faces_dict, surface_names |-> surface_names]
        ELSE IF element.type \in {2, 3} /\ Get(faces_dict, key) = <<>>
        THEN [err |-> name.err, edges |-> edges,
              faces_dict |-> SetItem(faces_dict, key, face),
              surface_names |-> IF name.err = NoErr
                                THEN Append(surface_names, name.name)
                                ELSE surface_names]
        ELSE [err |-> NoErr, edges |-> edges, faces_dict |-> faces_dict,
              surface_names |-> surface_names]

\* line 330: faces = [f for f in faces_dict.keys()]
Faces(faces_dict) == [k \in 1..Len(faces_dict) |-> faces_dict[k].key]

\* lines 333-340: the value load returns
NoMesh == [verts |-> <<>>, edges |-> <<>>, faces |-> <<>>]

Unset == [kind |-> "unset", mesh |-> NoMesh, surface_names |-> <<>>]

None == [kind |-> "None", mesh |-> NoMesh, surface_names |-> <<>>]

Return(verts, edges, faces_dict, surface_names) ==
  [kind |-> "tuple",
   mesh |-> [verts |-> verts, edges |-> edges, faces |-> Faces(faces_dict)],
   surface_names |-> surface_names]

(***************************************************************************)
(* load as a whole, lines 175-340: what load(filepath) gives for a file,   *)
(* the value it returns or the exception it raises.                        *)
(***************************************************************************)
Raised(e) == [kind |-> "raised", err |-> e, mesh |-> NoMesh, surface_names |-> <<>>]

Returned(r) ==
  [kind |-> r.kind, err |-> NoErr, mesh |-> r.mesh,
   surface_names |-> r.surface_names]

\* lines 307-319 from element number done + 1 on; r holds edges, faces_dict
\* and surface_names
RECURSIVE AssemblePass(_, _, _, _, _)
AssemblePass(elements, done, number_of_elements, physical_names, r) ==
  IF r.err # NoErr \/ done >= number_of_elements THEN r
  ELSE AssemblePass(elements, done + 1, number_of_elements, physical_names,
         AssembleElement(elements, done + 1, physical_names, r.edges,
                         r.faces_dict, r.surface_names))

\* lines 296-340
Assembly(physical_names, nd, el) ==
  IF CheckCounts(nd.nodes, nd.number_of_nodes, el.elements,
                 el.number_of_elements) # NoErr
  THEN Raised("AssertionError")
  ELSE
    Bind(VertsLoop(nd.nodes, nd.number_of_nodes, 0, <<>>), LAMBDA v :
      IF v.err # NoErr THEN Raised(v.err)
      ELSE
        Bind(AssemblePass(el.elements, 0, el.number_of_elements,
                          physical_names,
                          [err |-> NoErr, edges |-> <<>>, faces_dict |-> <<>>,
                           surface_names |-> <<>>]),
             LAMBDA r :
               IF r.err # NoErr THEN Raised(r.err)
               ELSE Returned(Return(v.verts, r.edges, r.faces_dict,
                                    r.surface_names))))

\* lines 203-340
Sections(file, version_number, pn) ==
  Bind(SkipToNodes(file, pn.pos, pn.cmd), LAMBDA k :
    Bind(Nodes(file, k.pos, k.cmd, version_number), LAMBDA nd :
      IF nd.err # NoErr THEN Raised(nd.err)
      ELSE
        Bind(Elements(file, nd.pos, version_number), LAMBDA el :
          IF el.err # NoErr THEN Raised(el.err)
          ELSE Assembly(pn.physical_names, nd, el))))

Load(file) ==
  Bind(MeshFormat(file), LAMBDA h :
    IF h.ret = "None" THEN Returned(None)
    ELSE IF h.err # NoErr THEN Raised(h.err)
    ELSE
      Bind(PhysicalNames(file, h.pos, h.cmd), LAMBDA pn :
        IF pn.err # NoErr THEN Raised(pn.err)
        ELSE Sections(file, h.version_number, pn)))

(***************************************************************************)
(* ImportMSH.execute, lines 126-139: the materials of the new object, one  *)
(* per distinct surface name in the order of first use, and the material   *)
(* index of every polygon.                                                 *)
(***************************************************************************)
RECURSIVE Materials(_, _)
Materials(surfaces, mats) ==
  IF Len(surfaces) = 0 THEN mats
  ELSE Materials(Tail(surfaces),
                 IF \E m \in 1..Len(mats) : mats[m] = surfaces[1]
                 THEN mats ELSE Append(mats, surfaces[1]))

(***************************************************************************)
(* The files of the model: MSH text as gmsh writes it, and the ways a file *)
(* departs from it (no $MeshFormat, a malformed format line, unknown       *)
(* sections, blank lines, repeated ids, wrong counts).                     *)
(***************************************************************************)
SeqsUpTo(S, n) == UNION {[1..k -> S] : k \in 0..n}

M(text) == L(<<text>>)

Strs(ints) == [k \in 1..Len(ints) |-> ToStr(ints[k])]

RECURSIVE Flatten(_)
Flatten(seqs) ==
  IF Len(seqs) = 0 THEN <<>> ELSE seqs[1] \o Flatten(Tail(seqs))

Coords ==
  <<<<"0", "0", "0">>, <<"1", "0", "0">>, <<"0", "1", "0">>,
    <<"1", "1", "0.5">>>>

\* a node item is a node id, or 0 for a blank line
NodeLine(id) == IF id = 0 THEN Blank ELSE L(<<ToStr(id)>> \o Coords[id])

NodeLines(items) == [k \in 1..Len(items) |-> NodeLine(items[k])]

LegacyNodeSection(marker, items, declared) ==
  <<M(marker), L(<<ToStr(declared)>>)>> \o NodeLines(items)
    \o <<M("$EndNodes")>>

\* the items in entity blocks: one block, or two when 0 < cut < Len(items)
BlockNodeSection(items, declared, cut) ==
  LET n == Len(items)
      two == 0 < cut /\ cut < n
      blocks == IF n = 0 THEN 0 ELSE IF two THEN 2 ELSE 1
      hdr(k) == L(<<"1", "2", "0", ToStr(k)>>)
  IN  <<M("$Nodes"), L(<<ToStr(blocks), ToStr(declared)>>)>>
        \o (IF n = 0 THEN <<>>
            ELSE IF two
            THEN <<hdr(cut)>> \o NodeLines(SubSeq(items, 1, cut))
                   \o <<hdr(n - cut)>> \o NodeLines(SubSeq(items, cut + 1, n))
            ELSE <<hdr(n)>> \o NodeLines(items))
        \o <<M("$EndNodes")>>

\* an element item: id, type, physical entity, nodes; type 0 is a blank line
E(id, type, phys, elem_nodes) ==
  [id |-> id, type |-> type, phys |-> phys, nodes |-> elem_nodes]

BlankItem == E(0, 0, 0, <<>>)

LegacyElementLine(e) ==
  IF e.type = 0 THEN Blank
  ELSE L(<<ToStr(e.id), ToStr(e.type), "2", ToStr(e.phys), "1">>
           \o Strs(e.nodes))

LegacyElementSection(items, declared) ==
  <<M("$Elements"), L(<<ToStr(declared)>>)>>
    \o [k \in 1..Len(items) |-> LegacyElementLine(items[k])]
    \o <<M("$EndElements")>>

BlockElementLine(e) ==
  IF e.type = 0 THEN Blank ELSE L(<<ToStr(e.id)>> \o Strs(e.nodes))

\* the length of the run of items of type t (blank lines included) that
\* starts the sequence
RECURSIVE RunLen(_, _)
RunLen(items, t) ==
  IF Len(items) = 0 \/ items[1].type \notin {t, 0} THEN 0
  ELSE 1 + RunLen(Tail(items), t)

FirstType(items) ==
  LET real == {k \in 1..Len(items) : items[k].type # 0}
  IN  IF real = {} THEN 2
      ELSE items[CHOOSE k \in real : \A j \in real : k <= j].type

\* the entity blocks of a version-4 element section: one per run of elements
\* of one type
RECURSIVE ElementBlocks(_)
ElementBlocks(items) ==
  IF Len(items) = 0 THEN <<>>
  ELSE
    LET t == FirstType(items)
        n == RunLen(items, t)
    IN  <<<<L(<<"1", "2", ToStr(t), ToStr(n)>>)>>
            \o [k \in 1..n |-> BlockElementLine(items[k])]>>
          \o ElementBlocks(SubSeq(items, n + 1, Len(items)))

BlockElementSection(items, declared) ==
  LET blocks == ElementBlocks(items)
  IN  <<M("$Elements"), L(<<ToStr(Len(blocks)), ToStr(declared)>>)>>
        \o Flatten(blocks) \o <<M("$EndElements")>>

\* a physical name: dimension, number, name
PN(dim, num, name) == [dim |-> dim, num |-> num, name |-> name]

PhysicalNamesSection(names) ==
  <<M("$PhysicalNames"), L(<<ToStr(Len(names))>>)>>
    \o [k \in 1..Len(names) |->
          L(<<ToStr(names[k].dim), ToStr(names[k].num),
              "\"" \o names[k].name \o "\"">>)]
    \o <<M("$EndPhysicalNames")>>

\* sections the importer does not know
Entities == <<M("$Entities"), L(<<"1", "0", "0", "0">>), M("$EndEntities")>>

Periodic == <<M("$Periodic"), M("$EndPeriodic")>>

Comments ==
  <<M("$Comments"), L(<<"made", "by", "hand">>), Blank, L(<<"v", "1">>),
    M("$EndComments")>>

UnknownSections == {Entities, Periodic, Comments}

V2 == <<"2.2", "0", "8">>

V4 == <<"4", "0", "8">>

IsV4(format) == format[1] = "4"

NodeSection(format, items, declared, cut) ==
  IF IsV4(format) THEN BlockNodeSection(items, declared, cut)
  ELSE LegacyNodeSection("$Nodes", items, declared)

ElementSection(format, items, declared) ==
  IF IsV4(format) THEN BlockElementSection(items, declared)
  ELSE LegacyElementSection(items, declared)

Header(first, format) == <<M(first), L(format), M("$EndMeshFormat")>>

FourNodes == <<1, 2, 3, 4>>

WithIds(shapes) == [k \in 1..Len(shapes) |-> [shapes[k] EXCEPT !.id = k]]

ElemShapes ==
  {E(0, 1, 1, <<1, 2>>), E(0, 2, 1, <<1, 2, 3>>), E(0, 2, 2, <<3, 2, 1>>),
   E(0, 3, 1, <<1, 2, 3, 4>>), E(0, 2, 7, <<1, 2, 4>>),
   E(0, 4, 1, <<1, 2, 3, 4>>), E(0, 99, 1, <<>>)}

TopSide == <<PN(2, 1, "top"), PN(2, 2, "side")>>

Wire == <<PN(1, 1, "wire")>>

\* no section, dimension-2 names, a dimension-1 name only
NameChoices == {<<>>, <<PhysicalNamesSection(TopSide)>>,
                <<PhysicalNamesSection(Wire)>>}

\* well-formed files: up to MaxElems elements of every shape
AssemblyFiles ==
  {Header("$MeshFormat", format) \o Flatten(names)
     \o NodeSection(format, FourNodes, 4, 0)
     \o ElementSection(format, WithIds(shapes), Len(shapes)) :
   format \in {V2, V4}, names \in NameChoices,
   shapes \in SeqsUpTo(ElemShapes, MaxElems)}

\* elements that name a node twice
DegenerateFiles ==
  {Header("$MeshFormat", format) \o Flatten(names)
     \o NodeSection(format, FourNodes, 4, 2)
     \o ElementSection(format, WithIds(shapes), Len(shapes)) :
   format \in {V2, V4}, names \in NameChoices,
   shapes \in {<<E(0, 2, 1, <<1, 1, 2>>), E(0, 2, 2, <<1, 2, 2>>)>>,
               <<E(0, 2, 1, <<1, 1, 2>>), E(0, 2, 2, <<1, 2, 1>>)>>}}

TwoElements == <<E(1, 2, 1, <<3, 2, 1>>), E(2, 1, 1, <<1, 2>>)>>

\* unknown sections after $EndMeshFormat (a), after $EndPhysicalNames (b)
\* and between $EndNodes and $Elements (c)
SectionFile(format, names, a, b, c) ==
  Header("$MeshFormat", format) \o Flatten(a) \o Flatten(names)
    \o Flatten(b) \o NodeSection(format, <<1, 2, 3>>, 3, 0) \o Flatten(c)
    \o ElementSection(format, TwoElements, 2)

Runs == SeqsUpTo(UnknownSections, MaxUnknown)

SectionFiles ==
  {SectionFile(format, names, a, <<>>, <<>>) :
     format \in {V2, V4}, names \in NameChoices, a \in Runs}
  \cup {SectionFile(format, <<PhysicalNamesSection(TopSide)>>, <<>>, b, <<>>) :
     format \in {V2, V4}, b \in Runs}
  \cup {SectionFile(format, names, <<>>, <<>>, c) :
     format \in {V2, V4}, names \in NameChoices, c \in Runs}
  \cup {SectionFile(format, <<PhysicalNamesSection(TopSide)>>, <<a>>, <<b>>,
                    <<c>>) :
     format \in {V2, V4}, a \in UnknownSections, b \in UnknownSections,
     c \in UnknownSections}

\* node sections with blank lines, repeated or missing ids and wrong counts
NodeFiles ==
  {Header("$MeshFormat", V2) \o LegacyNodeSection(marker, items, declared)
     \o LegacyElementSection(TwoElements, 2) :
   marker \in {"$Nodes", "$ParametricNodes"},
   items \in SeqsUpTo(0..3, MaxNodeLines), declared \in 0..MaxNodeLines}
  \cup
  {Header("$MeshFormat", V4) \o BlockNodeSection(items, declared, cut)
     \o BlockElementSection(TwoElements, 2) :
   items \in SeqsUpTo(0..3, MaxNodeLines), declared \in 0..MaxNodeLines,
   cut \in 0..1}

CountItems ==
  {E(1, 2, 1, <<1, 2, 3>>), E(2, 2, 2, <<3, 2, 1>>), E(2, 1, 1, <<1, 2>>),
   E(3, 1, 1, <<2, 3>>), BlankItem}

\* element sections with blank lines, repeated or missing ids and wrong counts
CountFiles ==
  {Header("$MeshFormat", format) \o NodeSection(format, <<1, 2, 3>>, 3, 0)
     \o ElementSection(format, items, declared) :
   format \in {V2, V4}, items \in SeqsUpTo(CountItems, MaxElems),
   declared \in 0..MaxElems}

\* files that are no MSH files, and malformed format lines
HeaderFiles ==
  {<<>>, <<M("$MeshFormat")>>}
  \cup
  {Header(first, format) \o LegacyNodeSection("$Nodes", <<1, 2, 3>>, 3)
     \o LegacyElementSection(TwoElements, 2) :
   first \in {"$MeshFormat", "$NOFF", "OFF"},
   format \in {V2, <<"4.1", "0", "8">>, <<"x", "0", "8">>, <<"2.2">>,
               <<"2.2", "0">>, <<"2.2", "ascii", "8">>}}

Files ==
  AssemblyFiles \cup DegenerateFiles \cup SectionFiles \cup NodeFiles
    \cup CountFiles \cup HeaderFiles

(***************************************************************************)
(* The state: the file and the file object of load (handle, pos), the      *)
(* locals of load, the value it returns (ret) or the exception it raises   *)
(* (err), and the data of the host that execute changes.                   *)
(***************************************************************************)
VARIABLES
  file,              \* the lines of the file at filepath
  handle,            \* "none", "open" or "closed": the file object f
  pos,               \* the index of the next line f.readline() returns
  pc,                \* the place of control in execute and load
  err,               \* the exception load has raised, "" when none
  version_number, cmd, physical_names,
  number_of_nodes, nodes, number_of_elements, elements,
  verts, edges, faces_dict, surface_names,
  i,                 \* the index of the assembly loop, line 307
  ret,               \* the value load returns
  outcome,           \* what execute returns or raises
  bpy_data           \* the meshes, objects and materials created

vars ==
  <<file, handle, pos, pc, err, version_number, cmd, physical_names,
    number_of_nodes, nodes, number_of_elements, elements, verts, edges,
    faces_dict, surface_names, i, ret, outcome, bpy_data>>

parsed ==
  <<version_number, cmd, physical_names, number_of_nodes, nodes,
    number_of_elements, elements>>

assembled == <<verts, edges, faces_dict, surface_names, i>>

host == <<outcome, bpy_data>>

NoData == [meshes |-> 0, objects |-> 0, materials |-> <<>>]

Init ==
  /\ file \in Files
  /\ handle = "none"
  /\ pos = 1
  /\ pc = "execute"
  /\ err = NoErr
  /\ version_number = UnsetFloat
  /\ cmd = ""
  /\ physical_names = NoNames
  /\ number_of_nodes = 0
  /\ nodes = EmptyDict
  /\ number_of_elements = 0
  /\ elements = EmptyDict
  /\ verts = <<>>
  /\ edges = <<>>
  /\ faces_dict = <<>>
  /\ surface_names = <<>>
  /\ i = 0
  /\ ret = Unset
  /\ outcome = ""
  /\ bpy_data = NoData

\* load leaves by "raise e" when e is an exception, else goes on at next
Goto(e, next) ==
  /\ err' = e
  /\ pc' = IF e = NoErr THEN next ELSE "load_exit"

\* execute, lines 104-114, calls load; load, lines 177-178, opens the file
Execute ==
  /\ pc = "execute"
  /\ handle' = "open"
  /\ pc' = "mesh_format"
  /\ UNCHANGED <<file, pos, err, parsed, assembled, ret, host>>

\* load, lines 179-186
ReadMeshFormat ==
  /\ pc = "mesh_format"
  /\ \E r \in {MeshFormat(file)} :
         /\ pos' = r.pos
         /\ version_number' = r.version_number
         /\ cmd' = r.cmd
         /\ ret' = IF r.ret = "None" THEN None ELSE ret
         /\ err' = r.err
         /\ pc' = IF r.ret = "None" \/ r.err # NoErr THEN "load_exit"
                  ELSE "physical_names"
  /\ UNCHANGED <<file, handle, physical_names, number_of_nodes, nodes,
                 number_of_elements, elements, assembled, host>>

\* load, lines 187-200
ReadPhysicalNames ==
  /\ pc = "physical_names"
  /\ \E r \in {PhysicalNames(file, pos, cmd)} :
         /\ pos' = r.pos
         /\ physical_names' = r.physical_names
         /\ cmd' = r.cmd
         /\ Goto(r.err, "skip")
  /\ UNCHANGED <<file, handle, version_number, number_of_nodes, nodes,
                 number_of_elements, elements, assembled, ret, host>>

\* load, lines 203-205
SkipUnknown ==
  /\ pc = "skip"
  /\ \E r \in {SkipToNodes(file, pos, cmd)} :
         /\ pos' = r.pos
         /\ cmd' = r.cmd
  /\ pc' = "nodes"
  /\ UNCHANGED <<file, handle, err, version_number, physical_names,
                 number_of_nodes, nodes, number_of_elements, elements,
                 assembled, ret, host>>

\* load, lines 207-235
ReadNodes ==
  /\ pc = "nodes"
  /\ \E r \in {Nodes(file, pos, cmd, version_number)} :
         /\ pos' = r.pos
         /\ number_of_nodes' = r.number_of_nodes
         /\ nodes' = r.nodes
         /\ Goto(r.err, "elements")
  /\ UNCHANGED <<file, handle, version_number, cmd, physical_names,
                 number_of_elements, elements, assembled, ret, host>>

\* load, lines 239-292
ReadElements ==
  /\ pc = "elements"
  /\ \E r \in {Elements(file, pos, version_number)} :
         /\ pos' = r.pos
         /\ number_of_elements' = r.number_of_elements
         /\ elements' = r.elements
         /\ Goto(r.err, "check")
  /\ UNCHANGED <<file, handle, version_number, cmd, physical_names,
                 number_of_nodes, nodes, assembled, ret, host>>

\* load, lines 296-305: the two assertions, then the vertices
BuildVerts ==
  /\ pc = "check"
  /\ \E a \in {CheckCounts(nodes, number_of_nodes, elements,
                             number_of_elements)} :
       IF a # NoErr
       THEN Goto(a, "assemble") /\ verts' = verts
       ELSE \E r \in {VertsLoop(nodes, number_of_nodes, 0, <<>>)} :
              Goto(r.err, "assemble") /\ verts' = r.verts
  /\ UNCHANGED <<file, handle, pos, parsed, edges, faces_dict, surface_names,
                 i, ret, host>>

\* load, lines 307-319: one iteration of the assembly pass
Assemble ==
  /\ pc = "assemble"
  /\ i < number_of_elements
  /\ \E r \in {AssembleElement(elements, i + 1, physical_names, edges,
                                faces_dict, surface_names)} :
         /\ edges' = r.edges
         /\ faces_dict' = r.faces_dict
         /\ surface_names' = r.surface_names
         /\ Goto(r.err, "assemble")
  /\ i' = i + 1
  /\ UNCHANGED <<file, handle, pos, parsed, verts, ret, host>>

\* load, lines 330-340: the mesh is created and returned
Finish ==
  /\ pc = "assemble"
  /\ i >= number_of_elements
  /\ ret' = Return(verts, edges, faces_dict, surface_names)
  /\ bpy_data' = [bpy_data EXCEPT !.meshes = @ + 1]
  /\ pc' = "load_exit"
  /\ UNCHANGED <<file, handle, pos, err, parsed, assembled, outcome>>

\* load never closes f: the file object is closed when the interpreter
\* collects it, at some time after load has returned or raised, or never
\* before the process ends
Collect ==
  /\ pc \in {"load_exit", "link", "done"}
  /\ handle = "open"
  /\ handle' = "closed"
  /\ UNCHANGED <<file, pos, pc, err, parsed, assembled, ret, host>>

\* line 115, "not mesh": the Mesh object that bpy.data.meshes.new gives has
\* neither __bool__ nor __len__, so it is true
IsTrue(mesh) == TRUE

\* execute, lines 114-116: an exception of load passes through execute;
\* "mesh, surfaces = None" raises TypeError before line 115 is reached
Unpack ==
  /\ pc = "load_exit"
  /\ IF err # NoErr
     THEN outcome' = err /\ pc' = "done"
     ELSE IF ret.kind = "None"
     THEN outcome' = "TypeError" /\ pc' = "done"
     ELSE IF ~IsTrue(ret.mesh)
     THEN outcome' = "CANCELLED" /\ pc' = "done"
     ELSE outcome' = outcome /\ pc' = "link"
  /\ UNCHANGED <<file, handle, pos, err, parsed, assembled, ret, bpy_data>>

\* execute, lines 118-149: the object and its materials
Link ==
  /\ pc = "link"
  /\ IF Len(ret.mesh.faces) # Len(ret.surface_names)
     THEN outcome' = "AssertionError" /\ bpy_data' = [bpy_data EXCEPT !.objects = @ + 1]
     ELSE /\ outcome' = "FINISHED"
          /\ bpy_data' = [bpy_data EXCEPT
                            !.objects = @ + 1,
                            !.materials = Materials(ret.surface_names, <<>>)]
  /\ pc' = "done"
  /\ UNCHANGED <<file, handle, pos, err, parsed, assembled, ret>>

Next ==
  \/ Execute
  \/ ReadMeshFormat
  \/ ReadPhysicalNames
  \/ SkipUnknown
  \/ ReadNodes
  \/ ReadElements
  \/ BuildVerts
  \/ Assemble
  \/ Finish
  \/ Collect
  \/ Unpack
  \/ Link

Spec == Init /\ [][Next]_vars

(***************************************************************************)
(* Properties.  load has exited when it has returned or raised; Result is  *)
(* what it gave.                                                           *)
(***************************************************************************)
LoadExited == pc \in {"load_exit", "link", "done"}

Result == IF err # NoErr THEN Raised(err) ELSE Returned(ret)

Range(t) == {t[k] : k \in 1..Len(t)}

Count(t, x) == Cardinality({k \in 1..Len(t) : t[k] = x})

\* a and b hold the same node ids, in any order
SameNodes(a, b) ==
  /\ Len(a) = Len(b)
  /\ \A x \in Range(a) \cup Range(b) : Count(a, x) = Count(b, x)

\* the triangles and quadrangles among the elements 1..n
FaceElements(n) ==
  {e \in 1..n : e \in DOMAIN elements /\ elements[e].type \in {2, 3}}

\* e is the first element with its nodes
IsFirst(e) ==
  \A d \in FaceElements(e - 1) :
     ~SameNodes(elements[d].nodes, elements[e].nodes)

Firsts(n) == {e \in FaceElements(n) : IsFirst(e)}

FirstOf(e) ==
  CHOOSE d \in Firsts(e) : SameNodes(elements[d].nodes, elements[e].nodes)

\* the name the surface-name rule gives element e
NameFor(e) ==
  IF physical_names[2] # EmptyDict
  THEN physical_names[2][elements[e].physical_entity]
  ELSE "no_name"

\* C1: after every step of the assembly pass, and in the value load
\* returns, there are as many stored faces as surface names.
C1_ParallelArrays ==
  /\ Len(faces_dict) = Len(surface_names)
  /\ ret.kind = "tuple" => Len(ret.mesh.faces) = Len(ret.surface_names)

\* C2: every face load gives to the mesh is the node indices (node id - 1)
\* of the first element seen with those nodes, in that element's own order.
C2_OriginalWinding ==
  ret.kind = "tuple" =>
    \A k \in 1..Len(ret.mesh.faces) :
       \E e \in Firsts(number_of_elements) :
          ret.mesh.faces[k] = Indices(elements[e].nodes)

\* faces and names hold one face and one name for every set of nodes among
\* the triangles and quadrangles 1..n, the name being that of the first
Deduplicated(n, faces, names) ==
  /\ Len(faces) = Cardinality(Firsts(n))
  /\ Len(names) = Cardinality(Firsts(n))
  /\ \A e \in FaceElements(n) :
       LET at == {k \in 1..Len(faces) :
                    SameNodes(faces[k], Indices(elements[e].nodes))}
       IN  /\ Cardinality(at) = 1
           /\ \A k \in at : names[k] = NameFor(FirstOf(e))

\* C3: elements with the same nodes in any order give one face and one
\* surface name, the name of the element visited first; this holds after
\* every step of the assembly pass (a later duplicate changes nothing) and
\* in the value load returns.
C3_FirstSeenWins ==
  /\ (pc = "assemble" /\ err = NoErr) =>
        Deduplicated(i, Faces(faces_dict), surface_names)
  /\ ret.kind = "tuple" =>
        Deduplicated(number_of_elements, ret.mesh.faces, ret.surface_names)

\* load has returned a mesh for a file where a later triangle has the nodes
\* of an earlier one in another order and another physical entity
C3_Reached ==
  /\ ret.kind = "tuple"
  /\ physical_names[2] # EmptyDict
  /\ \E a \in FaceElements(number_of_elements) :
       \E b \in FaceElements(number_of_elements) :
          /\ a < b
          /\ SameNodes(elements[a].nodes, elements[b].nodes)
          /\ elements[a].nodes # elements[b].nodes
          /\ elements[a].physical_entity # elements[b].physical_entity

\* the next element of the assembly pass is a triangle or quadrangle with
\* new nodes
NewFaceNext ==
  /\ pc = "assemble"
  /\ i < number_of_elements
  /\ i + 1 \in FaceElements(i + 1)
  /\ IsFirst(i + 1)

\* the physical entity of element e, when it has one, has a name of
\* dimension 2, or no name of dimension 2 is declared at all
EntityNamed(e) ==
  \/ physical_names[2] = EmptyDict
  \/ "physical_entity" \notin DOMAIN elements[e]
  \/ elements[e].physical_entity \in DOMAIN physical_names[2]

\* C4: in both grammars, the step of the assembly pass for an element that
\* brings a new face raises nothing and appends the name of the element's
\* physical entity when a name of dimension 2 is declared, "no_name" when
\* none is.
C4_SurfaceNameRule ==
  [][(NewFaceNext /\ EntityNamed(i + 1)) =>
        /\ err' = NoErr
        /\ surface_names' = Append(surface_names, NameFor(i + 1))]_vars

\* the start of a section the importer does not know
KnownMarkers ==
  {"$MeshFormat", "$EndMeshFormat", "$PhysicalNames", "$EndPhysicalNames",
   "$Nodes", "$ParametricNodes", "$EndNodes", "$Elements", "$EndElements"}

IsUnknownStart(line) ==
  /\ Len(line.toks) = 1
  /\ Char(line.toks[1], 1) = "$"
  /\ line.toks[1] \notin KnownMarkers
  /\ ~Contains(line.toks[1], "$End")

\* the index of the first line from p on whose text is text, or 0
RECURSIVE IndexOf(_, _, _)
IndexOf(fl, p, text) ==
  IF p > Len(fl) THEN 0
  ELSE IF Text(fl[p]) = text THEN p
  ELSE IndexOf(fl, p + 1, text)

EndOf(fl, p) == IndexOf(fl, p, "$End" \o StripDollar(Text(fl[p])))

UnknownStarts(fl) ==
  {p \in 1..Len(fl) : IsUnknownStart(fl[p]) /\ EndOf(fl, p) # 0}

\* the file fl without its unknown sections
RECURSIVE StripFrom(_, _)
StripFrom(fl, p) ==
  IF p > Len(fl) THEN <<>>
  ELSE IF p \in UnknownStarts(fl) THEN StripFrom(fl, EndOf(fl, p) + 1)
  ELSE <<fl[p]>> \o StripFrom(fl, p + 1)

StripUnknown(fl) == StripFrom(fl, 1)

\* no unknown section of the file fl holds a blank line
NoBlankInUnknown(fl) ==
  \A p \in UnknownStarts(fl) :
     \A q \in p..EndOf(fl, p) : fl[q] # Blank

\* C5: a file with unknown sections between its known sections (none of
\* them holding a blank line) loads to what the file without them loads to,
\* whenever that is a mesh.
C5_UnknownSectionsSkipped ==
  (LoadExited /\ UnknownStarts(file) # {} /\ NoBlankInUnknown(file)
     /\ Load(StripUnknown(file)).kind = "tuple")
    => Result = Load(StripUnknown(file))

\* C6: when the first line is not $MeshFormat, load gives no mesh and
\* execute ends CANCELLED, having raised nothing and created nothing.
C6_CleanAbort ==
  (pc = "done" /\ Text(ReadLine(file, 1)) # "$MeshFormat") =>
     /\ ret.kind = "None"
     /\ outcome = "CANCELLED"
     /\ bpy_data = NoData

\* C7: once load has returned or raised, the file is closed.
C7_HandleClosed == LoadExited => handle = "closed"

\* the total the header of the section started by one of the markers
\* declares: the only number of the line in the legacy grammar, the second
\* in the block grammar; -1 when the file has no such section
DeclaredTotal(markers) ==
  LET at == {p \in 1..Len(file) : Text(file[p]) \in markers}
      p == CHOOSE q \in at : \A r \in at : q <= r
      t == Lex(ReadLine(file, p + 1))
      k == IF LessThan4(version_number) THEN 1 ELSE 2
  IN  IF at = {} \/ t.n < k \/ ~t.s[k].isint THEN -1 ELSE t.s[k].int

CountsAgree ==
  /\ Cardinality(DOMAIN nodes) = number_of_nodes
  /\ Cardinality(DOMAIN elements) = number_of_elements

\* C8: load returns a mesh only when the distinct node ids and element ids
\* it has parsed are as many as the headers of $Nodes and $Elements declare;
\* when they are not, load raises before a vertex, an edge or a face is
\* assembled, and returns no mesh.
C8_CountsValidated ==
  /\ ret.kind = "tuple" =>
        /\ CountsAgree
        /\ number_of_nodes = DeclaredTotal({"$Nodes", "$ParametricNodes"})
        /\ number_of_elements = DeclaredTotal({"$Elements"})
  /\ ~CountsAgree =>
        /\ verts = <<>> /\ edges = <<>> /\ faces_dict = <<>>
        /\ surface_names = <<>>
        /\ ret.kind # "tuple"
        /\ pc \notin {"assemble", "link"}
        /\ LoadExited => err # NoErr
        /\ bpy_data = NoData

\* cmd is the start of a section that load calls skipUnknownCmd for at
\* line 204
SkipCalled ==
  /\ pc = "skip"
  /\ ~Contains(cmd, "Nodes")
  /\ Len(cmd) > 1
  /\ Char(cmd, 1) = "$"

\* the position after the first line from pos on that is $End<Name>, or
\* the end of the file when there is none
AfterEndMarker ==
  LET q == IndexOf(file, pos, "$End" \o StripDollar(cmd))
  IN  IF q = 0 THEN Len(file) + 1 ELSE q + 1

\* C9: skipUnknownCmd reads up to and including the first line $End<Name>,
\* or to the end of the file, and stops at no line before it: the line load
\* reads next is the one after the marker.
C9_SkipToEndMarker ==
  [][SkipCalled =>
        /\ cmd' = Text(ReadLine(file, AfterEndMarker))
        /\ pos' = Advance(file, AfterEndMarker)]_vars

\* the first line $Nodes or $ParametricNodes, its end, and the lines between
NodesAt == IndexOf(file, 1, cmd)

EndNodesAt == IndexOf(file, 1, "$EndNodes")

NodeRecords ==
  {p \in (NodesAt + 2)..(EndNodesAt - 1) : file[p] # Blank}

\* the legacy node section of the file has been read, and it holds as many
\* node records as it declares, with distinct ids, among blank lines
LegacyNodesRead ==
  /\ pc = "elements"
  /\ LessThan4(version_number)
  /\ cmd \in {"$Nodes", "$ParametricNodes"}
  /\ EndNodesAt > NodesAt + 1
  /\ NodeRecords # {}
  /\ Cardinality(NodeRecords) = number_of_nodes
  /\ \A p \in NodeRecords : \A q \in NodeRecords :
        file[p].toks[1] = file[q].toks[1] => p = q

\* C10: the legacy node section with N records and blank lines between
\* them gives N nodes, and $EndNodes is the last line read.
C10_BlankLinesNotCounted ==
  LegacyNodesRead =>
     /\ Cardinality(DOMAIN nodes) = number_of_nodes
     /\ pos = EndNodesAt + 1

=============================================================================
